---------------------------- MODULE Spec2Model ----------------------------
(*
  Credential / token core of the Zyra backend:

    - RefreshTokenService  (refresh_tokens ledger: issue, find, revoke,
                            revoke-all, sweep, rotate)
    - JwtTokenUtil         (signed access / refresh JWTs)
    - authMiddleware       (the request gate, both versions in the tree)
    - authController       (login, refresh-token endpoint, verify-otp)
    - OTPService           (otp_verifications challenges)
    - userController       (activate / deactivate / delete)

  Time is a discrete clock `now`; every TTL of the code is a number of
  ticks of that clock.  A database statement is one atomic step; an async
  handler is a sequence of such steps, and concurrent handlers interleave
  between their awaits.
*)
EXTENDS Integers, FiniteSets, Sequences, TLC

\* ------------------------------------------------------------------ bounds
MaxTime == 2        \* the clock runs 0..MaxTime
MaxTokens == 3      \* refresh-token strings generateTokenString can hand out
MaxLogins == 1      \* direct createRefreshToken calls (token-issuing flows)
MaxJwts == 2        \* JWTs the server signs in one run
MaxOtps == 2        \* challenges sendAndStoreOTP persists in one run

\* ------------------------------------------------------- program constants
RefreshTTL == 2     \* 30 days (createRefreshToken), in ticks
AccessTTL == 1      \* 7 days (JWT_EXPIRES_IN / JwtTokenUtil.expiration), in ticks
OtpTTL == 1
ResetTTL == 1         \* 3 minutes (sendAndStoreOTP), in ticks
AttemptLimit == 3   \* verifyOTP: otpRecord.attempts >= 3

UserIds == {"u1", "u2", "u3"}   \* u1, u2: seeded accounts; u3: an id not yet used
SeedIds == {"u1", "u2"}
Emails == {"e1", "e2", "e3"}
GoogleIds == {"g1", "g2"}       \* profile.id values of the identity provider
Procs == {"p1", "p2"}       \* concurrent refreshAccessToken calls
TokenIds == 0..MaxTokens    \* 0: a string the ledger never issued
Times == 0..(MaxTime + RefreshTTL)

VARIABLES
  now,             \* wall clock (new Date() / Date.now())
  users,           \* users table: id -> row
  refresh_tokens,  \* refresh_tokens table: set of rows
  nextToken,       \* next fresh value of generateTokenString()
  rot,             \* per call of refreshAccessToken: position and locals
  lineage,         \* history: <<presented, successor>> per successful rotation
  revokeRet,       \* last direct revokeToken(token) call and its return value
  jwts,            \* JWTs signed with the server secret so far
  gate,            \* the HTTP request being answered, and its response
  otp_verifications,  \* otp_verifications table: set of rows
  nextOtp,         \* next primary key of otp_verifications
  otpCall,         \* the OTP request or service call being answered
  wrongGuesses,    \* history: per challenge, failed verify-otp requests that
                   \* carried another code for its user and channel while
                   \* it was live (counted up to AttemptLimit)
  calls            \* per concurrent request handler: position and locals

ledgerVars == <<refresh_tokens, nextToken, rot, lineage, revokeRet>>
gateVars == <<jwts, gate>>
otpVars == <<otp_verifications, nextOtp, otpCall, wrongGuesses>>
vars == <<now, users, ledgerVars, gateVars, otpVars, calls>>

\* ------------------------------------------------------------ users table
RoleOf(u) == IF u = "u2" THEN "admin" ELSE "user"

\* email of the seeded accounts
SeedEmail(u) == IF u = "u1" THEN "e1" ELSE "e2"

\* password_hash: "none" is null, "h0" / "h1" are two different hashes;
\* google_id: "none" is null; gone: the row was deleted (ids are never reused)
NoUserRow == [exists |-> FALSE, is_active |-> FALSE, role |-> "user",
              is_verified |-> FALSE, phone_verified |-> FALSE,
              email |-> "none", password_hash |-> "none",
              google_id |-> "none", reset_password_expires |-> 0,
              verification_token |-> FALSE, gone |-> FALSE]

DeletedUserRow == [NoUserRow EXCEPT !.gone = TRUE]

NewUserRow(u) == [exists |-> TRUE, is_active |-> TRUE, role |-> RoleOf(u),
                  is_verified |-> FALSE, phone_verified |-> FALSE,
                  email |-> SeedEmail(u), password_hash |-> "h0",
                  google_id |-> "none", reset_password_expires |-> 0,
                  verification_token |-> TRUE, gone |-> FALSE]

\* the lookup by email finding nobody
ByEmailNobody(em) == {}

\* db('users').where({ email })
ByEmail(em) == {id \in UserIds : users[id].exists /\ users[id].email = em}

\* db('users').where({ google_id })
ByGoogleId(gid) == {id \in UserIds : users[id].exists /\ users[id].google_id = gid}

\* ids gen_random_uuid() can still hand out
UnusedIds == {id \in UserIds : users[id] = NoUserRow}

\* db('users').where({ id }).first()  ->  row or undefined
UserFirst(u) == IF users[u].exists THEN users[u] ELSE NoUserRow

\* ---------------------------------------------------- refresh_tokens table
RowOf(t) == CHOOSE r \in refresh_tokens : r.token = t
HasRow(t) == \E r \in refresh_tokens : r.token = t

\* the validity predicate of the data model at time `at`
ValidAt(r, at) == r.revoked = FALSE /\ at < r.expires_at
Live(t) == HasRow(t) /\ ValidAt(RowOf(t), now)

\* findByToken with the revoked filter lost
FindByTokenAnyRevoked(t, at) ==
  {r \in refresh_tokens : r.token = t /\ r.expires_at > at}

\* findByToken with an inclusive expiry comparison
FindByTokenInclusive(t, at) ==
  {r \in refresh_tokens : r.token = t /\ r.revoked = FALSE /\ r.expires_at >= at}

\* findByToken: where token = t and revoked = false and expires_at > now
FindByToken(t, at) ==
  {r \in refresh_tokens : r.token = t /\ r.revoked = FALSE /\ r.expires_at > at}

\* revokeToken's update: where token = t; returns the number of rows updated
RevokeMatches(t) == {r \in refresh_tokens : r.token = t}

RevokeTokenRows(t) ==
  {IF r \in RevokeMatches(t) THEN [r EXCEPT !.revoked = TRUE] ELSE r
     : r \in refresh_tokens}

\* revokeAllUserTokens's update with the user_id condition lost
RevokeAllMatchesAnyUser(u) ==
  {r \in refresh_tokens : r.revoked = FALSE}

\* revokeAllUserTokens's update: where user_id = u and revoked = false
RevokeAllMatches(u) ==
  {r \in refresh_tokens : r.user_id = u /\ r.revoked = FALSE}

\* cleanExpiredTokens: where expires_at < now or revoked = true
SweepMatches == {r \in refresh_tokens : r.expires_at < now \/ r.revoked = TRUE}

\* the row createRefreshToken inserts
NewTokenRow(u) == [token |-> nextToken, user_id |-> u,
                   expires_at |-> now + RefreshTTL, revoked |-> FALSE]

\* ------------------------------------------------------------------ JWTs
\* A JWT is its claim set, whether it carries issuer 'zyra-api' and audience
\* 'zyra-client' (aud), and whether its signature is the server's (sig).
\* type "none": the token carries no type claim; role "none": no role claim.
NoJwt == [sub |-> "none", role |-> "none", type |-> "none", aud |-> FALSE,
          exp |-> 0, sig |-> FALSE]

\* tokens an attacker can write without the secret
ForgedJwts ==
  {[sub |-> u, role |-> "admin", type |-> "access", aud |-> TRUE,
    exp |-> MaxTime + AccessTTL, sig |-> FALSE] : u \in UserIds}

\* authController's generateToken(userId, role = 'user'): jwt.sign({userId, role})
ControllerToken(u, role) ==
  [sub |-> u, role |-> (IF role = "none" THEN "user" ELSE role),
   type |-> "none", aud |-> FALSE, exp |-> now + AccessTTL, sig |-> TRUE]

\* JwtTokenUtil.generateToken(userId, role, additionalClaims): the claims are
\* {userId, role, type: 'access', ...additionalClaims}; `extraType` is what
\* additionalClaims says about `type` ("absent": nothing).
ExtraTypes == {"absent", "refresh", "none"}

UtilAccessToken(u, role, extraType) ==
  [sub |-> u, role |-> role,
   type |-> (IF extraType = "absent" THEN "access" ELSE extraType),
   aud |-> TRUE, exp |-> now + AccessTTL, sig |-> TRUE]

\* what additionalClaims can say about userId, role and type ("absent":
\* nothing about that claim)
ExtraClaims ==
  [userId : {"absent", "u2"}, role : {"absent", "admin"}, type : ExtraTypes]

\* generateToken's claim set: {userId, role, type: 'access', ...additionalClaims},
\* the spread last, so that a key of additionalClaims replaces the claim
GenerateTokenClaims(u, role, extra) ==
  [sub |-> (IF extra.userId = "absent" THEN u ELSE extra.userId),
   role |-> (IF extra.role = "absent" THEN role ELSE extra.role),
   type |-> (IF extra.type = "absent" THEN "access" ELSE extra.type),
   aud |-> TRUE, exp |-> now + AccessTTL, sig |-> TRUE]

\* JwtTokenUtil.generateRefreshToken(userId): {userId, type: 'refresh'}
UtilRefreshToken(u) ==
  [sub |-> u, role |-> "none", type |-> "refresh", aud |-> TRUE,
   exp |-> now + RefreshTTL, sig |-> TRUE]

\* jwt.verify(token, secret): signature, then expiry (now >= exp is expired)
JwtVerify(tok, at) ==
  IF ~tok.sig THEN "invalid"
  ELSE IF at >= tok.exp THEN "expired"
  ELSE "ok"

\* JwtTokenUtil.verifyToken: jwt.verify with issuer and audience required
VerifyToken(tok, at) ==
  IF JwtVerify(tok, at) # "ok" THEN JwtVerify(tok, at)
  ELSE IF ~tok.aud THEN "invalid"
  ELSE "ok"

\* ------------------------------------------------------------ HTTP requests
NoIdentity == [userId |-> "none", role |-> "none"]

\* minted: the JWT in the response body; refresh: the refresh-token string in
\* the response body (0: none); pw: what the request's password matched
NoRequest == [handler |-> "none", present |-> FALSE, tok |-> NoJwt,
              dbOk |-> TRUE, status |-> 0, reason |-> "none",
              next |-> FALSE, user |-> NoIdentity, minted |-> NoJwt,
              refresh |-> 0, pw |-> "none", gid |-> "none", em |-> "none"]

Response(h, present, tok, dbOk, status, reason) ==
  [handler |-> h, present |-> present, tok |-> tok, dbOk |-> dbOk,
   status |-> status, reason |-> reason,
   next |-> FALSE, user |-> NoIdentity, minted |-> NoJwt,
   refresh |-> 0, pw |-> "none", gid |-> "none", em |-> "none"]

\* ------------------------------------------------- otp_verifications table
OtpIds == 1..MaxOtps
Codes == {"111111", "222222"}    \* values of generateOTP()
Channels == {"email", "sms"}

\* the row sendAndStoreOTP inserts (is_verified and attempts by default)
NewOtpRow(u, code, ch) ==
  [id |-> nextOtp, user_id |-> u, otp_code |-> code, verification_type |-> ch,
   is_verified |-> FALSE, expires_at |-> now + OtpTTL, attempts |-> 0]

\* verifyOTP's lookup with the is_verified filter lost
VerifyMatchesAnyVerified(u, code, ch) ==
  {r \in otp_verifications :
     /\ r.user_id = u /\ r.otp_code = code /\ r.verification_type = ch
     /\ r.expires_at > now}

\* verifyOTP's lookup with an inclusive expiry comparison
VerifyMatchesInclusive(u, code, ch) ==
  {r \in otp_verifications :
     /\ r.user_id = u /\ r.otp_code = code /\ r.verification_type = ch
     /\ r.is_verified = FALSE /\ r.expires_at >= now}

\* verifyOTP's lookup: user, code, type, is_verified = false, expires_at > now
VerifyMatches(u, code, ch) ==
  {r \in otp_verifications :
     /\ r.user_id = u /\ r.otp_code = code /\ r.verification_type = ch
     /\ r.is_verified = FALSE /\ r.expires_at > now}

\* incrementOTPAttempts's update: user, code, type (any state of the row)
IncrementMatches(u, code, ch) ==
  {r \in otp_verifications :
     r.user_id = u /\ r.otp_code = code /\ r.verification_type = ch}

IncrementedRows(u, code, ch) ==
  {IF r \in IncrementMatches(u, code, ch)
     THEN [r EXCEPT !.attempts = r.attempts + 1] ELSE r : r \in otp_verifications}

\* cleanExpiredOTPs: where expires_at < now
ExpiredOtps == {r \in otp_verifications : r.expires_at < now}

\* verifyOTP's answer for the row its lookup returned (NoOtpRow: none)
NoOtpRow == [id |-> 0, user_id |-> "none", otp_code |-> "none",
             verification_type |-> "none", is_verified |-> FALSE,
             expires_at |-> 0, attempts |-> 0]

VerifyAnswer(r) ==
  IF r = NoOtpRow THEN "InvalidOrExpired"
  ELSE IF r.attempts >= AttemptLimit THEN "TooManyAttempts"
  ELSE "ok"

\* verifyOTP's two updates on success: the challenge, then the user's flag
MarkVerified(r) ==
  {IF x.id = r.id THEN [x EXCEPT !.is_verified = TRUE] ELSE x
     : x \in otp_verifications}

FlagUser(u, ch) ==
  IF ch = "email" THEN [users EXCEPT ![u].is_verified = TRUE]
  ELSE IF ch = "sms" THEN [users EXCEPT ![u].phone_verified = TRUE]
  ELSE users

\* a challenge that can still be verified at `now`
LiveOtp(r) == r.is_verified = FALSE /\ r.expires_at > now

\* svc, env, fault, delivery, ttl, expiresIn: of a sendAndStoreOTP call (which
\* OTPService file, NODE_ENV, what is wrong with the delivery, how it ended,
\* the seconds from Date.now() to the stored expires_at, the value returned)
NoOtpCall == [handler |-> "none", user |-> "none", code |-> "none",
              channel |-> "none", status |-> 0, reason |-> "none",
              row |-> 0, svc |-> "none", env |-> "none", fault |-> "none",
              delivery |-> "none", ttl |-> 0, expiresIn |-> 0]

OtpAnswer(h, u, code, ch, status, reason, row) ==
  [NoOtpCall EXCEPT !.handler = h, !.user = u, !.code = code, !.channel = ch,
                    !.status = status, !.reason = reason, !.row = row]

\* ------------------------------------------------------------------ Init
\* swept (history): a sweep was entitled to delete the presented token's row
\* after this call's findByToken had accepted it and before its own revokeToken
IdleCall == [pc |-> "idle", arg |-> 0, owner |-> "none",
             result |-> "none", fault |-> FALSE, swept |-> FALSE]

\* op: the method called; ret / flipped: revokeToken's return value and whether
\* it flipped a row; user / count: revokeAllUserTokens's argument and return
NoRevokeCall == [ret |-> FALSE, flipped |-> FALSE, called |-> FALSE,
                 op |-> "none", user |-> "none", count |-> 0]

\* a request handler that has not started: handler and position, the request's
\* inputs, what its lookups returned, and its answer
NoCall == [handler |-> "none", pc |-> "idle", em |-> "none", gid |-> "none",
           user |-> "none", code |-> "none", channel |-> "none",
           found |-> "none", row |-> 0, status |-> 0, reason |-> "none"]

Init ==
  /\ now = 0
  /\ users = [u \in UserIds |-> IF u \in SeedIds THEN NewUserRow(u) ELSE NoUserRow]
  /\ refresh_tokens = {}
  /\ nextToken = 1
  /\ rot = [p \in Procs |-> IdleCall]
  /\ lineage = {}
  /\ revokeRet = NoRevokeCall
  /\ jwts = {}
  /\ gate = NoRequest
  /\ otp_verifications = {}
  /\ nextOtp = 1
  /\ otpCall = NoOtpCall
  /\ wrongGuesses = [i \in OtpIds |-> 0]
  /\ calls = [p \in Procs |-> NoCall]

\* no call is in flight
Quiet == (\A p \in Procs : rot[p].pc = "idle") /\ ~revokeRet.called

\* tokens issued directly so far (every other one is a rotation's successor)
Logins == (nextToken - 1) - Cardinality(lineage)

\* the clock advances (only between database statements)
Tick ==
  /\ now < MaxTime
  /\ now' = now + 1
  /\ UNCHANGED <<users, refresh_tokens, nextToken, rot, lineage, revokeRet, gateVars, otpVars, calls>>

\* ------------------------------------------- RefreshTokenService, one call
\* createRefreshToken(userId), called directly by a token-issuing flow
CreateRefreshToken(u) ==
  /\ users[u].exists
  /\ nextToken <= MaxTokens
  /\ refresh_tokens' = refresh_tokens \cup {NewTokenRow(u)}
  /\ nextToken' = nextToken + 1
  /\ UNCHANGED <<now, users, rot, lineage, revokeRet, gateVars, otpVars, calls>>

\* revokeToken(token), called directly; the promise resolves to updated > 0
RevokeToken(t) ==
  /\ refresh_tokens' = RevokeTokenRows(t)
  /\ revokeRet' = [NoRevokeCall EXCEPT
                     !.ret = Cardinality(RevokeMatches(t)) > 0,
                     !.flipped = \E r \in RevokeMatches(t) : r.revoked = FALSE,
                     !.called = TRUE, !.op = "revokeToken"]
  /\ UNCHANGED <<now, users, nextToken, rot, lineage, gateVars, otpVars, calls>>

\* the caller has read the return value
RevokeReturn ==
  /\ revokeRet.called
  /\ revokeRet' = NoRevokeCall
  /\ UNCHANGED <<now, users, refresh_tokens, nextToken, rot, lineage, gateVars, otpVars, calls>>

\* the table after revokeAllUserTokens's update
RevokeAllRows(u) ==
  {IF r \in RevokeAllMatches(u) THEN [r EXCEPT !.revoked = TRUE] ELSE r
     : r \in refresh_tokens}

\* revokeAllUserTokens(userId), its return value not looked at
RevokeAllUserTokens(u) ==
  /\ RevokeAllMatches(u) # {}
  /\ refresh_tokens' = RevokeAllRows(u)
  /\ UNCHANGED <<now, users, nextToken, rot, lineage, revokeRet, gateVars, otpVars, calls>>

\* revokeAllUserTokens(userId), called directly; the promise resolves to the
\* number of rows updated
RevokeAllCall(u) ==
  /\ refresh_tokens' = RevokeAllRows(u)
  /\ revokeRet' = [NoRevokeCall EXCEPT
                     !.called = TRUE, !.op = "revokeAllUserTokens",
                     !.user = u, !.count = Cardinality(RevokeAllMatches(u))]
  /\ UNCHANGED <<now, users, nextToken, rot, lineage, gateVars, otpVars, calls>>

\* the calls of refreshAccessToken that hold a token this sweep deletes
SweptUnder(p) ==
  /\ rot[p].pc \in {"load", "revoke"}
  /\ \E r \in SweepMatches : r.token = rot[p].arg

\* cleanExpiredTokens()
CleanExpiredTokens ==
  /\ SweepMatches # {}
  /\ refresh_tokens' = refresh_tokens \ SweepMatches
  /\ rot' = [p \in Procs |->
               IF SweptUnder(p) THEN [rot[p] EXCEPT !.swept = TRUE] ELSE rot[p]]
  /\ UNCHANGED <<now, users, nextToken, lineage, revokeRet, gateVars, otpVars, calls>>

\* ------------------------------- RefreshTokenService.refreshAccessToken(arg)
\* A call is a sequence of four awaited database statements; `ok` is whether
\* the statement reaches the database (a knex error otherwise).
Finish(p, res, faulted) ==
  [rot EXCEPT ![p].pc = "done", ![p].result = res, ![p].fault = faulted]

RotateStart(p, t) ==
  /\ rot[p].pc = "idle"
  /\ rot' = [rot EXCEPT ![p] = [IdleCall EXCEPT !.pc = "find", !.arg = t]]
  /\ UNCHANGED <<now, users, refresh_tokens, nextToken, lineage, revokeRet, gateVars, otpVars, calls>>

\* const refreshToken = await this.findByToken(refreshTokenString)
\* (findByToken swallows a database error and answers null)
RotateFind(p) ==
  /\ rot[p].pc = "find"
  /\ \E ok \in BOOLEAN :
       LET found == IF ok THEN FindByToken(rot[p].arg, now) ELSE {} IN
       IF found = {}
         THEN rot' = Finish(p, "InvalidOrExpired", ~ok)
         ELSE rot' = [rot EXCEPT ![p].pc = "load",
                                 ![p].owner = (CHOOSE r \in found : TRUE).user_id]
  /\ UNCHANGED <<now, users, refresh_tokens, nextToken, lineage, revokeRet, gateVars, otpVars, calls>>

\* the user check with the is_active test lost
UserExistsOnly(user) == user.exists

\* if (!user || !user.is_active) throw 'User not found or inactive'
UserUsable(user) == user.exists /\ user.is_active

\* const user = await db('users')...where({ id: refreshToken.user_id }).first()
RotateLoadUser(p) ==
  /\ rot[p].pc = "load"
  /\ \E ok \in BOOLEAN :
       IF ~ok THEN rot' = Finish(p, "StoreError", TRUE)
       ELSE IF ~UserUsable(UserFirst(rot[p].owner))
         THEN rot' = Finish(p, "UserInactive", FALSE)
         ELSE rot' = [rot EXCEPT ![p].pc = "revoke"]
  /\ UNCHANGED <<now, users, refresh_tokens, nextToken, lineage, revokeRet, gateVars, otpVars, calls>>

\* await this.revokeToken(refreshTokenString)   -- the return value is dropped
RotateRevoke(p) ==
  /\ rot[p].pc = "revoke"
  /\ \E ok \in BOOLEAN :
       IF ~ok
         THEN /\ rot' = Finish(p, "StoreError", TRUE)
              /\ UNCHANGED refresh_tokens
         ELSE /\ refresh_tokens' = RevokeTokenRows(rot[p].arg)
              /\ rot' = [rot EXCEPT ![p].pc = "create"]
  /\ UNCHANGED <<now, users, nextToken, lineage, revokeRet, gateVars, otpVars, calls>>

\* generateTokenPair(user.id, user.role); await this.createRefreshToken(user.id)
RotateCreate(p) ==
  /\ rot[p].pc = "create"
  /\ \E ok \in BOOLEAN :
       IF ~ok
         THEN /\ rot' = Finish(p, "StoreError", TRUE)
              /\ UNCHANGED <<refresh_tokens, nextToken, lineage>>
         ELSE /\ nextToken <= MaxTokens
              /\ refresh_tokens' = refresh_tokens \cup {NewTokenRow(rot[p].owner)}
              /\ nextToken' = nextToken + 1
              /\ lineage' = lineage \cup {<<rot[p].arg, nextToken>>}
              /\ rot' = [rot EXCEPT ![p].pc = "done", ![p].result = "ok"]
  /\ UNCHANGED <<now, users, revokeRet, gateVars, otpVars, calls>>

\* the promise settles and the caller goes on
RotateReturn(p) ==
  /\ rot[p].pc = "done"
  /\ rot' = [rot EXCEPT ![p] = IdleCall]
  /\ UNCHANGED <<now, users, refresh_tokens, nextToken, lineage, revokeRet, gateVars, otpVars, calls>>

\* ------------------------------------------------- userController (admin)
\* the acting admin passed authMiddleware and requireAdmin, and is not `id`
ActingAdmin(id) ==
  \E a \in UserIds : a # id /\ UserUsable(users[a]) /\ users[a].role = "admin"

DeactivateUser(id) ==
  /\ ActingAdmin(id)
  /\ users[id].exists
  /\ users[id].is_active
  /\ users' = [users EXCEPT ![id].is_active = FALSE]
  /\ UNCHANGED <<now, refresh_tokens, nextToken, rot, lineage, revokeRet, gateVars, otpVars, calls>>

ActivateUser(id) ==
  /\ ActingAdmin(id)
  /\ users[id].exists
  /\ ~users[id].is_active
  /\ users' = [users EXCEPT ![id].is_active = TRUE]
  /\ UNCHANGED <<now, refresh_tokens, nextToken, rot, lineage, revokeRet, gateVars, otpVars, calls>>

\* rows of refresh_tokens that go with their user (foreign key, on delete cascade)
CascadeRefreshTokens(id) == {r \in refresh_tokens : r.user_id # id}

\* otp_verifications.user_id references users.id, on delete cascade
CascadeOtps(id) == {r \in otp_verifications : r.user_id # id}

DeleteUser(id) ==
  /\ ActingAdmin(id)
  /\ users[id].exists
  /\ users' = [users EXCEPT ![id] = DeletedUserRow]
  /\ refresh_tokens' = CascadeRefreshTokens(id)
  /\ otp_verifications' = CascadeOtps(id)
  /\ UNCHANGED <<now, nextToken, rot, lineage, revokeRet, gateVars, nextOtp,
                 otpCall, wrongGuesses, calls>>

AdminCall ==
  \/ \E id \in UserIds : DeactivateUser(id)
  \/ \E id \in UserIds : ActivateUser(id)
  \/ \E id \in UserIds : DeleteUser(id)

\* ------------------------------------------------------- the request gate
\* if (decoded.type && decoded.type !== 'access')   (a missing type is falsy)
WrongType(tok) == tok.type # "none" /\ tok.type # "access"

\* what the middleware of middleware/auth (JwtTokenUtil version) answers
AuthOutcome(present, tok, dbOk) ==
  LET h == "authMiddleware" IN
  IF ~present THEN Response(h, present, tok, dbOk, 401, "MissingToken")
  ELSE IF VerifyToken(tok, now) = "expired"
    THEN Response(h, present, tok, dbOk, 401, "TokenExpired")
  ELSE IF VerifyToken(tok, now) # "ok"
    THEN Response(h, present, tok, dbOk, 401, "InvalidToken")
  ELSE IF WrongType(tok)
    THEN Response(h, present, tok, dbOk, 401, "InvalidTokenType")
  ELSE IF ~dbOk THEN Response(h, present, tok, dbOk, 500, "Internal")
  ELSE IF ~UserFirst(tok.sub).exists
    THEN Response(h, present, tok, dbOk, 401, "UserNotFound")
  ELSE IF ~UserFirst(tok.sub).is_active
    THEN Response(h, present, tok, dbOk, 401, "AccountDeactivated")
  ELSE [Response(h, present, tok, dbOk, 0, "none") EXCEPT
          !.next = TRUE,
          !.user = [userId |-> tok.sub, role |-> UserFirst(tok.sub).role]]

\* what the middleware of src/middleware/auth.js (plain jwt.verify) answers;
\* it sends messages without codes: 'Access token required', 'Invalid token',
\* 'Token expired', 'User not found', 'Account is deactivated'
LegacyAuthOutcome(present, tok, dbOk) ==
  LET h == "authMiddlewareLegacy" IN
  IF ~present THEN Response(h, present, tok, dbOk, 401, "MissingToken")
  ELSE IF JwtVerify(tok, now) = "invalid"
    THEN Response(h, present, tok, dbOk, 401, "InvalidToken")
  ELSE IF JwtVerify(tok, now) = "expired"
    THEN Response(h, present, tok, dbOk, 401, "TokenExpired")
  ELSE IF ~dbOk THEN Response(h, present, tok, dbOk, 500, "Internal")
  ELSE IF ~UserFirst(tok.sub).exists
    THEN Response(h, present, tok, dbOk, 401, "UserNotFound")
  ELSE IF ~UserFirst(tok.sub).is_active
    THEN Response(h, present, tok, dbOk, 401, "AccountDeactivated")
  ELSE [Response(h, present, tok, dbOk, 0, "none") EXCEPT
          !.next = TRUE,
          !.user = [userId |-> tok.sub, role |-> UserFirst(tok.sub).role]]

\* what optionalAuth does: next() in every case, req.user only for a verified
\* token with type 'access' whose user row is found and active
OptionalAuthOutcome(present, tok, dbOk) ==
  LET r == [Response("optionalAuth", present, tok, dbOk, 0, "none") EXCEPT !.next = TRUE] IN
  IF /\ present
     /\ VerifyToken(tok, now) = "ok"
     /\ tok.type = "access"
     /\ dbOk
     /\ UserFirst(tok.sub).exists
     /\ UserFirst(tok.sub).is_active
    THEN [r EXCEPT !.user = [userId |-> tok.sub, role |-> UserFirst(tok.sub).role]]
    ELSE r

\* no request is being answered
GateIdle == gate.handler = "none"

\* what a client can put in an Authorization header or a request body
Bearers == jwts \cup ForgedJwts

AuthMiddleware(present, tok, dbOk) ==
  /\ GateIdle
  /\ gate' = AuthOutcome(present, tok, dbOk)
  /\ UNCHANGED <<now, users, ledgerVars, jwts, otpVars, calls>>

AuthMiddlewareLegacy(present, tok, dbOk) ==
  /\ GateIdle
  /\ gate' = LegacyAuthOutcome(present, tok, dbOk)
  /\ UNCHANGED <<now, users, ledgerVars, jwts, otpVars, calls>>

OptionalAuth(present, tok, dbOk) ==
  /\ GateIdle
  /\ gate' = OptionalAuthOutcome(present, tok, dbOk)
  /\ UNCHANGED <<now, users, ledgerVars, jwts, otpVars, calls>>

\* the response is on the wire (or the downstream handler has run)
GateReturn ==
  /\ ~GateIdle
  /\ gate' = NoRequest
  /\ UNCHANGED <<now, users, ledgerVars, jwts, otpVars, calls>>

\* --------------------------------------------------------- authController
\* POST /auth/login; `e` is the account of the submitted email, if any
Login(valid, e, pwOk) ==
  LET h == "login" IN
  /\ GateIdle
  /\ IF ~valid
       THEN gate' = Response(h, FALSE, NoJwt, TRUE, 400, "Validation") /\ UNCHANGED jwts
     ELSE IF e = "nobody" \/ ~users[e].exists
       THEN gate' = Response(h, FALSE, NoJwt, TRUE, 401, "InvalidCredentials") /\ UNCHANGED jwts
     ELSE IF ~users[e].is_active
       THEN /\ gate' = [Response(h, FALSE, NoJwt, TRUE, 401, "AccountDeactivated") EXCEPT
                          !.pw = IF pwOk THEN "ok" ELSE "wrong"]
            /\ UNCHANGED jwts
     ELSE IF users[e].password_hash = "none"
       THEN gate' = Response(h, FALSE, NoJwt, TRUE, 500, "Internal") /\ UNCHANGED jwts
     ELSE IF ~pwOk
       THEN /\ gate' = [Response(h, FALSE, NoJwt, TRUE, 401, "InvalidCredentials") EXCEPT
                          !.pw = "wrong"]
            /\ UNCHANGED jwts
     ELSE /\ Cardinality(jwts) < MaxJwts
          /\ jwts' = jwts \cup {ControllerToken(e, users[e].role)}
          /\ gate' = [Response(h, FALSE, NoJwt, TRUE, 200, "none") EXCEPT
                        !.user = [userId |-> e, role |-> users[e].role],
                        !.minted = ControllerToken(e, users[e].role),
                        !.pw = "ok"]
  /\ UNCHANGED <<now, users, ledgerVars, otpVars, calls>>

\* POST /auth/register {email, password, ...}
Register(valid, em) ==
  LET h == "register" IN
  /\ GateIdle
  /\ IF ~valid
       THEN gate' = Response(h, FALSE, NoJwt, TRUE, 400, "Validation") /\ UNCHANGED <<jwts, users>>
     ELSE IF ByEmail(em) # {}
       THEN gate' = Response(h, FALSE, NoJwt, TRUE, 400, "EmailTaken") /\ UNCHANGED <<jwts, users>>
     ELSE \E id \in UnusedIds :
          /\ Cardinality(jwts) < MaxJwts
          /\ users' = [users EXCEPT ![id] =
                         [NoUserRow EXCEPT !.exists = TRUE, !.is_active = TRUE,
                                           !.email = em, !.password_hash = "h0",
                                           !.verification_token = TRUE]]
          /\ jwts' = jwts \cup {ControllerToken(id, "user")}
          /\ gate' = [Response(h, FALSE, NoJwt, TRUE, 201, "none") EXCEPT
                        !.user = [userId |-> id, role |-> "user"],
                        !.minted = ControllerToken(id, "user")]
  /\ UNCHANGED <<now, ledgerVars, otpVars, calls>>

\* the other hash: bcrypt.hash(newPassword)
Rehash(hh) == IF hh = "h0" THEN "h1" ELSE "h0"

\* POST /auth/change-password, behind authMiddleware (req.user.userId = u);
\* `fields`: both passwords present and the new one long enough
ChangePassword(u, fields, pwOk, dbOk) ==
  LET h == "changePassword"
      who == [userId |-> u, role |-> users[u].role] IN
  /\ GateIdle
  /\ users[u] # NoUserRow
  /\ IF ~fields
       THEN gate' = [Response(h, TRUE, NoJwt, dbOk, 400, "Validation") EXCEPT !.user = who]
            /\ UNCHANGED users
     ELSE IF ~dbOk
       THEN gate' = [Response(h, TRUE, NoJwt, dbOk, 500, "Internal") EXCEPT !.user = who]
            /\ UNCHANGED users
     ELSE IF ~users[u].exists
       THEN gate' = [Response(h, TRUE, NoJwt, dbOk, 404, "UserNotFound") EXCEPT !.user = who]
            /\ UNCHANGED users
     ELSE IF users[u].password_hash = "none"
       THEN gate' = [Response(h, TRUE, NoJwt, dbOk, 500, "Internal") EXCEPT !.user = who]
            /\ UNCHANGED users
     ELSE IF ~pwOk
       THEN gate' = [Response(h, TRUE, NoJwt, dbOk, 400, "WrongPassword") EXCEPT
                       !.user = who, !.pw = "wrong"]
            /\ UNCHANGED users
     ELSE /\ users' = [users EXCEPT ![u].password_hash = Rehash(users[u].password_hash)]
          /\ gate' = [Response(h, TRUE, NoJwt, dbOk, 200, "none") EXCEPT
                        !.user = who, !.pw = "ok"]
  /\ UNCHANGED <<now, ledgerVars, jwts, otpVars, calls>>

\* POST /auth/verify-email {token}; `e`: the account that holds the submitted
\* verification token (verification_token: the row has one)
VerifyEmail(present, e) ==
  LET h == "verifyEmail" IN
  /\ GateIdle
  /\ IF ~present
       THEN gate' = Response(h, FALSE, NoJwt, TRUE, 400, "Validation") /\ UNCHANGED users
     ELSE IF e = "nobody" \/ ~users[e].exists \/ ~users[e].verification_token
       THEN gate' = Response(h, FALSE, NoJwt, TRUE, 400, "InvalidVerificationToken")
            /\ UNCHANGED users
     ELSE IF users[e].is_verified
       THEN gate' = [Response(h, FALSE, NoJwt, TRUE, 400, "AlreadyVerified") EXCEPT
                       !.user = [userId |-> e, role |-> users[e].role]]
            /\ UNCHANGED users
     ELSE /\ users' = [users EXCEPT ![e].is_verified = TRUE,
                                     ![e].verification_token = FALSE]
          /\ gate' = [Response(h, FALSE, NoJwt, TRUE, 200, "none") EXCEPT
                        !.user = [userId |-> e, role |-> users[e].role]]
  /\ UNCHANGED <<now, ledgerVars, jwts, otpVars, calls>>

\* POST /auth/forgot-password {email}: stores a reset token good for ResetTTL
\* (reset_password_expires = 0 stands for no token); the answer is the same
\* whether or not the email has an account
ForgotPassword(e) ==
  LET h == "forgotPassword" IN
  /\ GateIdle
  /\ gate' = Response(h, FALSE, NoJwt, TRUE, 200, "none")
  /\ users' = IF e = "nobody" \/ ~users[e].exists THEN users
               ELSE [users EXCEPT ![e].reset_password_expires = now + ResetTTL]
  /\ UNCHANGED <<now, ledgerVars, jwts, otpVars, calls>>

\* POST /auth/reset-password {token, newPassword}; `fields`: both present and
\* the password long enough; `e`: the account that holds the submitted token
ResetPassword(fields, e) ==
  LET h == "resetPassword" IN
  /\ GateIdle
  /\ IF ~fields
       THEN gate' = Response(h, FALSE, NoJwt, TRUE, 400, "Validation") /\ UNCHANGED users
     ELSE IF \/ e = "nobody" \/ ~users[e].exists
             \/ users[e].reset_password_expires = 0
             \/ ~(users[e].reset_password_expires > now)
       THEN gate' = Response(h, FALSE, NoJwt, TRUE, 400, "InvalidResetToken") /\ UNCHANGED users
     ELSE /\ users' = [users EXCEPT ![e].password_hash = Rehash(users[e].password_hash),
                                     ![e].reset_password_expires = 0]
          /\ gate' = [Response(h, FALSE, NoJwt, TRUE, 200, "none") EXCEPT
                        !.user = [userId |-> e, role |-> users[e].role]]
  /\ UNCHANGED <<now, ledgerVars, jwts, otpVars, calls>>

\* POST /auth/logout, behind authMiddleware (req.user.userId = u): the
\* handler writes a log line and answers
Logout(u) ==
  /\ GateIdle
  /\ users[u] # NoUserRow
  /\ gate' = [Response("logout", TRUE, NoJwt, TRUE, 200, "none") EXCEPT
                !.user = [userId |-> u, role |-> users[u].role]]
  /\ UNCHANGED <<now, users, ledgerVars, jwts, otpVars, calls>>

\* POST /auth/refresh-token {refreshToken}
RefreshTokenEndpoint(present, tok) ==
  LET h == "refreshToken" IN
  /\ GateIdle
  /\ IF ~present
       THEN gate' = Response(h, present, tok, TRUE, 400, "Validation") /\ UNCHANGED jwts
     ELSE IF JwtVerify(tok, now) # "ok"
       THEN gate' = Response(h, present, tok, TRUE, 401, "InvalidRefreshToken") /\ UNCHANGED jwts
     ELSE /\ Cardinality(jwts) < MaxJwts
          /\ jwts' = jwts \cup {ControllerToken(tok.sub, tok.role)}
          /\ gate' = [Response(h, present, tok, TRUE, 200, "none") EXCEPT
                        !.minted = ControllerToken(tok.sub, tok.role)]
  /\ UNCHANGED <<now, users, ledgerVars, otpVars, calls>>

\* ------------------------------------------------------------ JwtTokenUtil
\* generateToken(user.id, user.role, additionalClaims) for a stored user
GenerateToken(u, extraType) ==
  /\ GateIdle
  /\ users[u].exists
  /\ Cardinality(jwts) < MaxJwts
  /\ jwts' = jwts \cup {UtilAccessToken(u, users[u].role, extraType)}
  /\ UNCHANGED <<now, users, ledgerVars, gate, otpVars, calls>>

\* generateRefreshToken(user.id) for a stored user
GenerateRefreshToken(u) ==
  /\ GateIdle
  /\ users[u].exists
  /\ Cardinality(jwts) < MaxJwts
  /\ jwts' = jwts \cup {UtilRefreshToken(u)}
  /\ UNCHANGED <<now, users, ledgerVars, gate, otpVars, calls>>

\* generateToken(userId, role, additionalClaims) for any arguments; the answer
\* keeps the arguments (user) and the token (minted)
GenerateTokenCall(u, role, extra) ==
  /\ GateIdle
  /\ Cardinality(jwts) < MaxJwts
  /\ jwts' = jwts \cup {GenerateTokenClaims(u, role, extra)}
  /\ gate' = [Response("generateToken", FALSE, NoJwt, TRUE, 200, "none") EXCEPT
                !.user = [userId |-> u, role |-> role],
                !.minted = GenerateTokenClaims(u, role, extra)]
  /\ UNCHANGED <<now, users, ledgerVars, otpVars, calls>>

\* verifyToken(token) for a token issued before: the decoded claims, or the
\* error thrown
VerifyTokenCall(tok) ==
  /\ GateIdle
  /\ gate' = IF VerifyToken(tok, now) = "ok"
               THEN [Response("verifyToken", TRUE, tok, TRUE, 200, "none") EXCEPT
                       !.user = [userId |-> tok.sub, role |-> tok.role]]
               ELSE Response("verifyToken", TRUE, tok, TRUE, 401, VerifyToken(tok, now))
  /\ UNCHANGED <<now, users, ledgerVars, jwts, otpVars, calls>>

\* JwtTokenUtil on its own: tokens issued for any arguments, and verified
NextJwt ==
  \/ \E u \in UserIds, role \in {"user", "admin"}, extra \in ExtraClaims :
        GenerateTokenCall(u, role, extra)
  \/ \E tok \in jwts : VerifyTokenCall(tok)
  \/ GateReturn
  \/ GateIdle /\ Tick

SpecJwt == Init /\ [][NextJwt]_vars

\* requests and token issuing, one at a time against the users table
NextGate ==
  \/ \E present \in BOOLEAN, tok \in Bearers, dbOk \in BOOLEAN :
        AuthMiddleware(present, IF present THEN tok ELSE NoJwt, dbOk)
  \/ \E present \in BOOLEAN, tok \in Bearers, dbOk \in BOOLEAN :
        AuthMiddlewareLegacy(present, IF present THEN tok ELSE NoJwt, dbOk)
  \/ GateReturn
  \/ \E valid \in BOOLEAN, e \in UserIds \cup {"nobody"}, pwOk \in BOOLEAN :
        Login(valid, e, pwOk)
  \/ \E present \in BOOLEAN, tok \in Bearers :
        RefreshTokenEndpoint(present, IF present THEN tok ELSE NoJwt)
  \/ \E u \in UserIds, x \in ExtraTypes : GenerateToken(u, x)
  \/ \E u \in UserIds : GenerateRefreshToken(u)
  \/ GateIdle /\ AdminCall
  \/ GateIdle /\ Tick

SpecGate == Init /\ [][NextGate]_vars

\* optionalAuth next to authMiddleware, on tokens JwtTokenUtil has issued
NextOptional ==
  \/ \E present \in BOOLEAN, tok \in Bearers, dbOk \in BOOLEAN :
        OptionalAuth(present, IF present THEN tok ELSE NoJwt, dbOk)
  \/ \E present \in BOOLEAN, tok \in Bearers, dbOk \in BOOLEAN :
        AuthMiddleware(present, IF present THEN tok ELSE NoJwt, dbOk)
  \/ GateReturn
  \/ \E u \in UserIds, x \in ExtraTypes : GenerateToken(u, x)
  \/ \E u \in UserIds : GenerateRefreshToken(u)
  \/ GateIdle /\ AdminCall
  \/ GateIdle /\ Tick

SpecOptional == Init /\ [][NextOptional]_vars

\* --------------------------------------------------------------- OTPService
OtpIdle == otpCall.handler = "none"

\* sendAndStoreOTP(userId, email, phoneNumber, verificationType): the row is
\* inserted first; whatever the delivery does afterwards, the row stays
SendAndStoreOTP(u, code, ch) ==
  /\ OtpIdle
  /\ users[u].exists
  /\ nextOtp <= MaxOtps
  /\ otp_verifications' = otp_verifications \cup {NewOtpRow(u, code, ch)}
  /\ nextOtp' = nextOtp + 1
  /\ UNCHANGED <<now, users, ledgerVars, gateVars, otpCall, wrongGuesses, calls>>

\* the two OTPService files of the tree
OtpServices == {"part_006", "otpService.js"}
Envs == {"production", "development"}       \* NODE_ENV
Faults == {"none", "unconfigured", "sendError"}

\* expiresAt - Date.now() of sendAndStoreOTP and storeOTP, in seconds
TtlSeconds(svc) ==
  IF svc = "part_006" THEN (3 * 60 * 1000) \div 1000 ELSE (10 * 60 * 1000) \div 1000

\* the expiresIn that sendAndStoreOTP returns
ExpiresIn(svc) == IF svc = "part_006" THEN 180 ELSE 600

\* a delivery step that logs the code whatever goes wrong
DeliverLogsEveryFault(svc, ch, env, fault) == IF fault = "none" THEN "sent" ELSE "logged"

\* sendOTPEmail / sendOTPSMS: "sent", "logged" (returns true after logging the
\* code) or "threw"
Deliver(svc, ch, env, fault) ==
  IF fault = "none" THEN "sent"
  ELSE IF /\ svc = "part_006" /\ ch = "email"
          /\ fault = "unconfigured" /\ env # "production"
    THEN "logged"
  ELSE "threw"

\* sendAndStoreOTP(userId, email, phoneNumber, verificationType) of `svc`:
\* the insert, then the delivery (`addressed`: the email or phone number of
\* the channel was passed)
SendAndStoreOTPCall(svc, u, code, ch, addressed, env, fault) ==
  LET h == "OTPService.sendAndStoreOTP"
      d == IF addressed THEN Deliver(svc, ch, env, fault) ELSE "skipped"
      a == [OtpAnswer(h, u, code, ch, 200, "ok", nextOtp) EXCEPT
              !.svc = svc, !.env = env, !.fault = fault, !.delivery = d,
              !.ttl = TtlSeconds(svc)] IN
  /\ OtpIdle
  /\ users[u].exists
  /\ nextOtp <= MaxOtps
  /\ otp_verifications' = otp_verifications \cup {NewOtpRow(u, code, ch)}
  /\ nextOtp' = nextOtp + 1
  /\ otpCall' = IF d = "threw"
                  THEN [a EXCEPT !.status = 500, !.reason = "Thrown"]
                  ELSE [a EXCEPT !.expiresIn = ExpiresIn(svc)]
  /\ UNCHANGED <<now, users, ledgerVars, gateVars, wrongGuesses, calls>>

\* verifyOTP(userId, otpCode, verificationType), called directly;
\* .first() has no ORDER BY: any matching row may be the one returned
ServiceVerifyOTP(u, code, ch) ==
  LET h == "OTPService.verifyOTP" IN
  /\ OtpIdle
  /\ \E r \in (IF VerifyMatches(u, code, ch) = {} THEN {NoOtpRow}
                ELSE VerifyMatches(u, code, ch)) :
       IF VerifyAnswer(r) = "ok"
         THEN /\ otp_verifications' = MarkVerified(r)
              /\ users' = FlagUser(u, ch)
              /\ otpCall' = OtpAnswer(h, u, code, ch, 200, "ok", r.id)
         ELSE /\ otpCall' = OtpAnswer(h, u, code, ch, 400, VerifyAnswer(r), r.id)
              /\ UNCHANGED <<otp_verifications, users>>
  /\ UNCHANGED <<now, ledgerVars, gateVars, nextOtp, wrongGuesses, calls>>

\* incrementOTPAttempts(userId, otpCode, verificationType), called directly
IncrementOTPAttempts(u, code, ch) ==
  /\ OtpIdle
  /\ IncrementMatches(u, code, ch) # {}
  /\ \A r \in IncrementMatches(u, code, ch) : r.attempts < AttemptLimit
  /\ otp_verifications' = IncrementedRows(u, code, ch)
  /\ UNCHANGED <<now, users, ledgerVars, gateVars, nextOtp, otpCall, wrongGuesses, calls>>

\* cleanExpiredOTPs()
CleanExpiredOTPs ==
  /\ OtpIdle
  /\ ExpiredOtps # {}
  /\ otp_verifications' = otp_verifications \ ExpiredOtps
  /\ UNCHANGED <<now, users, ledgerVars, gateVars, nextOtp, otpCall, wrongGuesses, calls>>

\* ------------------------------------------ authController: POST verify-otp
\* `const otpService = require('../services/otpService')` is commented out in
\* authController: the identifier is unbound and every use of it throws a
\* ReferenceError into the handler's catch.
OtpServiceBound == FALSE

\* the challenges of (u, ch) still live that a request with `code` does not name
OtherLive(u, code, ch) ==
  {r \in otp_verifications :
     /\ r.user_id = u /\ r.verification_type = ch
     /\ LiveOtp(r) /\ r.otp_code # code}

CountWrong(u, code, ch) ==
  [i \in OtpIds |->
     IF (\E r \in OtherLive(u, code, ch) : r.id = i) /\ wrongGuesses[i] < AttemptLimit
       THEN wrongGuesses[i] + 1 ELSE wrongGuesses[i]]

\* `complete`: otpCode, verificationType and the matching identifier are in
\* the body; `e`: the account of the submitted email or phone number, if any
VerifyOtpRequest(complete, e, code, ch) ==
  LET h == "verifyOTP" IN
  /\ OtpIdle
  /\ GateIdle
  /\ IF ~complete
       THEN /\ otpCall' = OtpAnswer(h, "none", code, ch, 400, "Validation", 0)
            /\ UNCHANGED <<users, otp_verifications, wrongGuesses, gateVars>>
     ELSE IF e = "nobody" \/ ~users[e].exists
       THEN /\ otpCall' = OtpAnswer(h, "none", code, ch, 404, "UserNotFound", 0)
            /\ UNCHANGED <<users, otp_verifications, wrongGuesses, gateVars>>
     ELSE IF ~OtpServiceBound
       THEN /\ otpCall' = OtpAnswer(h, e, code, ch, 500, "Internal", 0)
            /\ wrongGuesses' = CountWrong(e, code, ch)
            /\ UNCHANGED <<users, otp_verifications, gateVars>>
     ELSE \E r \in (IF VerifyMatches(e, code, ch) = {} THEN {NoOtpRow}
                     ELSE VerifyMatches(e, code, ch)) :
       IF VerifyAnswer(r) = "ok"
         THEN /\ Cardinality(jwts) < MaxJwts
              /\ otp_verifications' = MarkVerified(r)
              /\ users' = FlagUser(e, ch)
              /\ jwts' = jwts \cup {ControllerToken(e, users[e].role)}
              /\ otpCall' = OtpAnswer(h, e, code, ch, 200, "ok", r.id)
              /\ UNCHANGED <<wrongGuesses, gate>>
         ELSE /\ \A x \in IncrementMatches(e, code, ch) : x.attempts < AttemptLimit
              /\ otp_verifications' = IncrementedRows(e, code, ch)
              /\ otpCall' = OtpAnswer(h, e, code, ch, 400, VerifyAnswer(r), r.id)
              /\ wrongGuesses' = CountWrong(e, code, ch)
              /\ UNCHANGED <<users, gateVars>>
  /\ UNCHANGED <<now, ledgerVars, nextOtp, calls>>

\* the caller has the answer
OtpReturn ==
  /\ ~OtpIdle
  /\ otpCall' = NoOtpCall
  /\ UNCHANGED <<now, users, ledgerVars, gateVars, otp_verifications, nextOtp,
                 wrongGuesses, calls>>

\* verify-otp requests against challenges the service has stored, one at a time
NextOtp ==
  \/ \E u \in UserIds, code \in Codes, ch \in Channels : SendAndStoreOTP(u, code, ch)
  \/ CleanExpiredOTPs
  \/ \E complete \in BOOLEAN, e \in UserIds \cup {"nobody"},
        code \in Codes, ch \in Channels : VerifyOtpRequest(complete, e, code, ch)
  \/ OtpReturn
  \/ OtpIdle /\ Tick

SpecOtp == Init /\ [][NextOtp]_vars

\* calls of the OTPService methods themselves, one at a time
NextOtpSvc ==
  \/ \E u \in UserIds, code \in Codes, ch \in Channels : SendAndStoreOTP(u, code, ch)
  \/ \E u \in UserIds, code \in Codes, ch \in Channels : ServiceVerifyOTP(u, code, ch)
  \/ \E u \in UserIds, code \in Codes, ch \in Channels : IncrementOTPAttempts(u, code, ch)
  \/ CleanExpiredOTPs
  \/ OtpReturn
  \/ OtpIdle /\ Tick

SpecOtpSvc == Init /\ [][NextOtpSvc]_vars

\* ------------------------------------------------------ the ledger's runs
Presentable == 0..(nextToken - 1)

RotateStep(p) ==
  \/ \E t \in Presentable : RotateStart(p, t)
  \/ RotateFind(p)
  \/ RotateLoadUser(p)
  \/ RotateRevoke(p)
  \/ RotateCreate(p)

LedgerCall ==
  \/ \E u \in UserIds : Logins < MaxLogins /\ CreateRefreshToken(u)
  \/ \E u \in UserIds : RevokeAllUserTokens(u)
  \/ CleanExpiredTokens

\* concurrent requests: the statements of all calls interleave freely
Next ==
  \/ \E p \in Procs : RotateStep(p)
  \/ LedgerCall
  \/ AdminCall
  \/ Tick

Spec == Init /\ [][Next]_vars

\* ------------------------------------------------------- GoogleAuthService
\* `const googleAuthService = require('../services/googleAuthService')` is
\* commented out in authController: its googleCallback throws before any
\* token is signed or any response is sent.
GoogleServiceBound == FALSE

\* the row the strategy's verify callback inserts for an unknown identity
GoogleUserRow(gid, em) ==
  [NoUserRow EXCEPT !.exists = TRUE, !.is_active = TRUE, !.is_verified = TRUE,
                    !.email = em, !.google_id = gid]

\* a users table that takes a row without a password hash
PasswordHashNullable(row) == TRUE

\* table.string('password_hash').notNullable(): the insert of a row that
\* gives no password_hash is refused by the database
PasswordHashNotNullable(row) == row.password_hash # "none"

\* what follows passport's done(null, user): authController.googleCallback
CallbackAnswer(gid, em, id, role) ==
  LET r == [Response("googleCallback", FALSE, NoJwt, TRUE, 0, "Unhandled") EXCEPT
              !.gid = gid, !.em = em, !.user = [userId |-> id, role |-> role]] IN
  IF GoogleServiceBound
    THEN [r EXCEPT !.status = 302, !.reason = "none",
                   !.minted = ControllerToken(id, role)]
    ELSE r

\* GET /auth/google/callback: passport runs the strategy's verify callback
\* for the profile (gid, em), then the controller's handler
GoogleCallback(gid, em, ok) ==
  LET h == "googleCallback" IN
  /\ GateIdle
  /\ IF ~ok
       THEN /\ gate' = [Response(h, FALSE, NoJwt, FALSE, 500, "Internal") EXCEPT
                          !.gid = gid, !.em = em]
            /\ UNCHANGED users
     ELSE IF ByGoogleId(gid) # {}
       THEN \E id \in ByGoogleId(gid) :
              /\ gate' = CallbackAnswer(gid, em, id, users[id].role)
              /\ UNCHANGED users
     ELSE IF ByEmail(em) # {}
       THEN \E id \in ByEmail(em) :
              /\ users' = [users EXCEPT ![id].google_id = gid]
              /\ gate' = CallbackAnswer(gid, em, id, users[id].role)
     ELSE IF ~PasswordHashNotNullable(GoogleUserRow(gid, em))
       THEN /\ gate' = [Response(h, FALSE, NoJwt, TRUE, 500, "Internal") EXCEPT
                          !.gid = gid, !.em = em]
            /\ UNCHANGED users
     ELSE \E id \in UnusedIds :
              /\ users' = [users EXCEPT ![id] = GoogleUserRow(gid, em)]
              /\ gate' = CallbackAnswer(gid, em, id, "user")
  /\ jwts' = IF gate'.minted = NoJwt THEN jwts ELSE jwts \cup {gate'.minted}
  /\ UNCHANGED <<now, ledgerVars, otpVars, calls>>

\* linkGoogleAccount(userId, googleId, ...): google_id is unique, so the
\* update throws when another row carries googleId
LinkGoogleAccount(u, gid) ==
  /\ GateIdle
  /\ users[u].exists
  /\ ByGoogleId(gid) \subseteq {u}
  /\ users' = [users EXCEPT ![u].google_id = gid]
  /\ UNCHANGED <<now, ledgerVars, gateVars, otpVars, calls>>

\* unlinkGoogleAccount(userId)
UnlinkGoogleAccount(u) ==
  /\ GateIdle
  /\ users[u].exists
  /\ users[u].google_id # "none"
  /\ users' = [users EXCEPT ![u].google_id = "none"]
  /\ UNCHANGED <<now, ledgerVars, gateVars, otpVars, calls>>

\* federated callbacks next to registration and account management
NextFed ==
  \/ GateReturn
  \/ \E gid \in GoogleIds, em \in Emails, ok \in BOOLEAN : GoogleCallback(gid, em, ok)
  \/ \E valid \in BOOLEAN, em \in Emails : Register(valid, em)
  \/ \E u \in UserIds, gid \in GoogleIds : LinkGoogleAccount(u, gid)
  \/ \E u \in UserIds : UnlinkGoogleAccount(u)
  \/ GateIdle /\ AdminCall

SpecFed == Init /\ [][NextFed]_vars

\* sendAndStoreOTP calls with their delivery step, one at a time
NextSend ==
  \/ \E svc \in OtpServices, u \in UserIds, code \in Codes, ch \in Channels,
        addressed \in BOOLEAN, env \in Envs, fault \in Faults :
          SendAndStoreOTPCall(svc, u, code, ch, addressed, env, fault)
  \/ OtpReturn
  \/ OtpIdle /\ Tick

SpecSend == Init /\ [][NextSend]_vars

\* the writers of the users' verification flags: OTP verification next to
\* the verify-email endpoint, one request at a time
NextFlags ==
  \/ GateIdle /\ \E u \in UserIds, code \in Codes, ch \in Channels : SendAndStoreOTP(u, code, ch)
  \/ GateIdle /\ \E u \in UserIds, code \in Codes, ch \in Channels : ServiceVerifyOTP(u, code, ch)
  \/ OtpReturn
  \/ OtpIdle /\ \E present \in BOOLEAN, e \in UserIds \cup {"nobody"} : VerifyEmail(present, e)
  \/ GateReturn
  \/ OtpIdle /\ GateIdle /\ Tick

SpecFlags == Init /\ [][NextFlags]_vars

\* ------------------------------------- register and callback, statement by
\* statement: each await of a handler is a step, other requests run between
Answer(c, status, reason) == [c EXCEPT !.pc = "done", !.status = status, !.reason = reason]

\* register: validation, then `await db('users').where({ email }).first()`
RegisterLookup(p, valid, em) ==
  LET c == [NoCall EXCEPT !.handler = "register", !.em = em] IN
  /\ calls[p].pc = "idle"
  /\ calls' = [calls EXCEPT ![p] =
                 IF ~valid THEN Answer(c, 400, "Validation")
                 ELSE IF ByEmail(em) # {} THEN Answer(c, 400, "EmailTaken")
                 ELSE [c EXCEPT !.pc = "insert"]]
  /\ UNCHANGED <<now, users, ledgerVars, gateVars, otpVars>>

\* register: `await db('users').insert(...)`; users.email is unique, so the
\* insert of an email a row carries by now throws into the handler's catch
RegisterInsert(p) ==
  LET c == calls[p] IN
  /\ c.handler = "register" /\ c.pc = "insert"
  /\ IF ByEmail(c.em) # {}
       THEN /\ calls' = [calls EXCEPT ![p] = Answer(c, 500, "Internal")]
            /\ UNCHANGED <<users, jwts>>
       ELSE \E id \in UnusedIds :
            /\ Cardinality(jwts) < MaxJwts
            /\ users' = [users EXCEPT ![id] =
                           [NoUserRow EXCEPT !.exists = TRUE, !.is_active = TRUE,
                                             !.email = c.em, !.password_hash = "h0",
                                             !.verification_token = TRUE]]
            /\ jwts' = jwts \cup {ControllerToken(id, "user")}
            /\ calls' = [calls EXCEPT ![p] = [Answer(c, 201, "none") EXCEPT !.user = id]]
  /\ UNCHANGED <<now, ledgerVars, gate, otpVars>>

\* the handler's answer after the verify callback's done(null, user)
CallbackDone(c, id) ==
  [Answer(c, CallbackAnswer(c.gid, c.em, id, users[id].role).status,
             CallbackAnswer(c.gid, c.em, id, users[id].role).reason) EXCEPT !.user = id]

\* verify callback: `await db('users').where({ google_id: id }).first()`
CallbackFindByGoogleId(p, gid, em) ==
  LET c == [NoCall EXCEPT !.handler = "googleCallback", !.gid = gid, !.em = em] IN
  /\ calls[p].pc = "idle"
  /\ IF ByGoogleId(gid) # {}
       THEN \E id \in ByGoogleId(gid) :
              /\ calls' = [calls EXCEPT ![p] = CallbackDone(c, id)]
              /\ jwts' = IF GoogleServiceBound
                           THEN jwts \cup {ControllerToken(id, users[id].role)} ELSE jwts
       ELSE /\ calls' = [calls EXCEPT ![p] = [c EXCEPT !.pc = "byEmail"]]
            /\ UNCHANGED jwts
  /\ UNCHANGED <<now, users, ledgerVars, gate, otpVars>>

\* verify callback: `await db('users').where({ email }).first()`
CallbackFindByEmail(p) ==
  LET c == calls[p] IN
  /\ c.handler = "googleCallback" /\ c.pc = "byEmail"
  /\ \E id \in (IF ByEmail(c.em) = {} THEN {"none"} ELSE ByEmail(c.em)) :
       calls' = [calls EXCEPT ![p] = [c EXCEPT !.pc = "write", !.found = id]]
  /\ UNCHANGED <<now, users, ledgerVars, gateVars, otpVars>>

\* verify callback: the update that links the identity to the row found by
\* email (google_id is unique), or the insert of a new row
CallbackWrite(p) ==
  LET c == calls[p] IN
  /\ c.handler = "googleCallback" /\ c.pc = "write"
  /\ IF c.found # "none"
       THEN IF ByGoogleId(c.gid) \subseteq {c.found}
              THEN /\ users' = [users EXCEPT ![c.found].google_id = c.gid]
                   /\ calls' = [calls EXCEPT ![p] = CallbackDone(c, c.found)]
                   /\ jwts' = IF GoogleServiceBound
                                THEN jwts \cup {ControllerToken(c.found, users[c.found].role)}
                                ELSE jwts
              ELSE /\ calls' = [calls EXCEPT ![p] = Answer(c, 500, "Internal")]
                   /\ UNCHANGED <<users, jwts>>
     ELSE IF \/ ~PasswordHashNotNullable(GoogleUserRow(c.gid, c.em))
             \/ ByEmail(c.em) # {} \/ ByGoogleId(c.gid) # {}
       THEN /\ calls' = [calls EXCEPT ![p] = Answer(c, 500, "Internal")]
            /\ UNCHANGED <<users, jwts>>
     ELSE \E id \in UnusedIds :
            /\ users' = [users EXCEPT ![id] = GoogleUserRow(c.gid, c.em)]
            /\ calls' = [calls EXCEPT ![p] =
                           [Answer(c, CallbackAnswer(c.gid, c.em, id, "user").status,
                                      CallbackAnswer(c.gid, c.em, id, "user").reason)
                              EXCEPT !.user = id]]
            /\ jwts' = IF GoogleServiceBound
                         THEN jwts \cup {ControllerToken(id, "user")} ELSE jwts
  /\ UNCHANGED <<now, ledgerVars, gate, otpVars>>

\* the client has the answer
CallReturn(p) ==
  /\ calls[p].pc = "done"
  /\ calls' = [calls EXCEPT ![p] = NoCall]
  /\ UNCHANGED <<now, users, ledgerVars, gateVars, otpVars>>

\* register requests and federated callbacks running concurrently
NextReg ==
  \/ \E p \in Procs, valid \in BOOLEAN, em \in Emails : RegisterLookup(p, valid, em)
  \/ \E p \in Procs : RegisterInsert(p)
  \/ \E p \in Procs, gid \in GoogleIds, em \in Emails : CallbackFindByGoogleId(p, gid, em)
  \/ \E p \in Procs : CallbackFindByEmail(p)
  \/ \E p \in Procs : CallbackWrite(p)
  \/ \E p \in Procs : CallReturn(p)

SpecReg == Init /\ [][NextReg]_vars

\* ------------------------------------- OTPService.verifyOTP, statement by
\* statement: the lookup, the update of the challenge, the update of the user
VerifyLookup(p, u, code, ch) ==
  LET c == [NoCall EXCEPT !.handler = "OTPService.verifyOTP", !.user = u,
                          !.code = code, !.channel = ch] IN
  /\ calls[p].pc = "idle"
  /\ \E r \in (IF VerifyMatches(u, code, ch) = {} THEN {NoOtpRow}
                ELSE VerifyMatches(u, code, ch)) :
       calls' = [calls EXCEPT ![p] =
                   IF VerifyAnswer(r) = "ok"
                     THEN [c EXCEPT !.pc = "mark", !.row = r.id]
                     ELSE [Answer(c, 400, VerifyAnswer(r)) EXCEPT !.row = r.id]]
  /\ UNCHANGED <<now, users, ledgerVars, gateVars, otpVars>>

\* update({is_verified: true, verified_at}) where id = otpRecord.id
VerifyMark(p) ==
  LET c == calls[p] IN
  /\ c.handler = "OTPService.verifyOTP" /\ c.pc = "mark"
  /\ otp_verifications' =
       {IF x.id = c.row THEN [x EXCEPT !.is_verified = TRUE] ELSE x
          : x \in otp_verifications}
  /\ calls' = [calls EXCEPT ![p] = [c EXCEPT !.pc = "flag"]]
  /\ UNCHANGED <<now, users, ledgerVars, gateVars, nextOtp, otpCall, wrongGuesses>>

\* the update of the user's flag, then {success: true}
VerifyFlag(p) ==
  LET c == calls[p] IN
  /\ c.handler = "OTPService.verifyOTP" /\ c.pc = "flag"
  /\ users' = FlagUser(c.user, c.channel)
  /\ calls' = [calls EXCEPT ![p] = Answer(c, 200, "ok")]
  /\ UNCHANGED <<now, ledgerVars, gateVars, otpVars>>

\* verifyOTP calls running concurrently on stored challenges
NextOtpRace ==
  \/ \E u \in UserIds, code \in Codes, ch \in Channels : SendAndStoreOTP(u, code, ch)
  \/ \E p \in Procs, u \in UserIds, code \in Codes, ch \in Channels :
        VerifyLookup(p, u, code, ch)
  \/ \E p \in Procs : VerifyMark(p)
  \/ \E p \in Procs : VerifyFlag(p)
  \/ \E p \in Procs : CallReturn(p)
  \/ Tick

SpecOtpRace == Init /\ [][NextOtpRace]_vars

\* the operations that write password_hash or google_id of a user row
NextCred ==
  \/ GateReturn
  \/ \E valid \in BOOLEAN, em \in Emails : Register(valid, em)
  \/ \E gid \in GoogleIds, em \in Emails, ok \in BOOLEAN : GoogleCallback(gid, em, ok)
  \/ \E u \in UserIds, gid \in GoogleIds : LinkGoogleAccount(u, gid)
  \/ \E u \in UserIds : UnlinkGoogleAccount(u)
  \/ \E u \in UserIds, fields, pwOk, dbOk \in BOOLEAN : ChangePassword(u, fields, pwOk, dbOk)
  \/ \E e \in UserIds \cup {"nobody"} : ForgotPassword(e)
  \/ \E fields \in BOOLEAN, e \in UserIds \cup {"nobody"} : ResetPassword(fields, e)
  \/ GateIdle /\ Tick

SpecCred == Init /\ [][NextCred]_vars

\* the session endpoints of authController next to the ledger, one request
\* or ledger call at a time
NextSession ==
  \/ GateReturn
  \/ \E valid \in BOOLEAN, e \in UserIds \cup {"nobody"}, pwOk \in BOOLEAN :
        Login(valid, e, pwOk)
  \/ \E valid \in BOOLEAN, em \in Emails : Register(valid, em)
  \/ \E u \in UserIds, fields \in BOOLEAN, pwOk \in BOOLEAN, dbOk \in BOOLEAN :
        ChangePassword(u, fields, pwOk, dbOk)
  \/ \E u \in UserIds : Logout(u)
  \/ GateIdle /\ LedgerCall
  \/ GateIdle /\ Tick

SpecSession == Init /\ [][NextSession]_vars

\* the single-statement methods of the ledger, called one at a time
NextLedger ==
  \/ \E u \in UserIds : Quiet /\ CreateRefreshToken(u)
  \/ \E u \in UserIds : Quiet /\ RevokeAllCall(u)
  \/ \E t \in Presentable : Quiet /\ RevokeToken(t)
  \/ RevokeReturn
  \/ Quiet /\ CleanExpiredTokens
  \/ Quiet /\ Tick

SpecLedger == Init /\ [][NextLedger]_vars

\* sequential requests: one call at a time, each run to completion
NextSeq ==
  \/ RotateStep("p1")
  \/ RotateReturn("p1")
  \/ RevokeReturn
  \/ Quiet /\ LedgerCall
  \/ Quiet /\ \E t \in Presentable : RevokeToken(t)
  \/ Quiet /\ AdminCall
  \/ Quiet /\ Tick

SpecSeq == Init /\ [][NextSeq]_vars

\* ================================================= refresh-token ledger
Successors(t) == {c \in TokenIds : <<t, c>> \in lineage}
Done(p) == rot[p].pc = "done"

\* C1: two concurrent rotate(T) calls never both succeed, and no token T
\* ever gets more than one successor refresh token.
RotateRaceSingleWinner ==
  /\ \A t \in TokenIds : Cardinality(Successors(t)) <= 1
  /\ \A p, q \in Procs :
       (p # q /\ Done(p) /\ Done(q) /\ rot[p].arg = rot[q].arg)
         => ~(rot[p].result = "ok" /\ rot[q].result = "ok")

\* C2: in a sequential run a token is rotated successfully at most once;
\* a successful rotate(R) leaves R revoked and hands out one fresh live
\* token R2 # R of the same user; and a rotate of a token that is live and
\* whose user is active does not fail (unless the database does).
SequentialRotation ==
  /\ \A t \in TokenIds : Cardinality(Successors(t)) <= 1
  /\ \A p \in Procs :
       (Done(p) /\ rot[p].result = "ok") =>
          /\ HasRow(rot[p].arg) /\ RowOf(rot[p].arg).revoked
          /\ \E c \in Successors(rot[p].arg) :
                /\ c # rot[p].arg
                /\ Live(c)
                /\ RowOf(c).user_id = rot[p].owner
  /\ \A p \in Procs :
       (Done(p) /\ rot[p].result # "ok" /\ ~rot[p].fault) =>
          ~(Live(rot[p].arg) /\ UserUsable(users[RowOf(rot[p].arg).user_id]))

\* rotate(R2) succeeded for a token R2 that is itself a rotation's successor
SequentialRotationWitness ==
  \E p \in Procs : \E r \in TokenIds :
    /\ Done(p) /\ rot[p].result = "ok"
    /\ <<r, rot[p].arg>> \in lineage
    /\ Successors(rot[p].arg) # {}

\* C4: findByToken (the first step of rotate) accepts a token iff its row is
\* unrevoked and now < expires_at at the time of the query; a database
\* error is the only other way for it to answer null.
AcceptedIffValid ==
  [][\A p \in Procs :
       (rot[p].pc = "find" /\ rot'[p].pc # "find") =>
          /\ (rot'[p].pc = "load") => Live(rot[p].arg)
          /\ (Live(rot[p].arg) /\ ~rot'[p].fault) => (rot'[p].pc = "load")
          /\ (rot'[p].pc # "load") =>
                (rot'[p].pc = "done" /\ rot'[p].result = "InvalidOrExpired")]_vars

\* a rotate refused at exactly now = expires_at, the row unrevoked
ExpiryBoundaryWitness ==
  \E p \in Procs :
    /\ Done(p) /\ rot[p].result = "InvalidOrExpired" /\ ~rot[p].fault
    /\ HasRow(rot[p].arg)
    /\ RowOf(rot[p].arg).revoked = FALSE
    /\ RowOf(rot[p].arg).expires_at = now

\* C5: revokeToken returns true exactly when it flipped a row from
\* unrevoked to revoked (so true once, then always false).
RevokeReturnsFlipped ==
  revokeRet.called => (revokeRet.ret <=> revokeRet.flipped)

\* C6: a finished rotate(T) either revoked T and created exactly one new live
\* token of T's user, or left T's revoked flag as it found it.
RotateAllOrNothing ==
  \A p \in Procs :
    Done(p) =>
      \/ /\ rot[p].result = "ok"
         /\ HasRow(rot[p].arg) /\ RowOf(rot[p].arg).revoked
         /\ Cardinality(Successors(rot[p].arg)) = 1
         /\ \A c \in Successors(rot[p].arg) :
               Live(c) /\ RowOf(c).user_id = rot[p].owner
      \/ /\ rot[p].result # "ok"
         /\ rot[p].owner # "none" =>
               (HasRow(rot[p].arg) /\ RowOf(rot[p].arg).revoked = FALSE)

\* C7: a rotate whose user lookup finds the owner missing or deactivated
\* ends there: it fails (with the user-inactive error unless the lookup
\* itself failed), revokes nothing and issues nothing.
InactiveUserCannotRotate ==
  [][\A p \in Procs :
       (/\ rot[p].pc = "load" /\ rot'[p].pc # "load"
        /\ ~(users[rot[p].owner].exists /\ users[rot[p].owner].is_active)) =>
          /\ rot'[p].pc = "done"
          /\ rot'[p].result \in {"UserInactive", "StoreError"}
          /\ ~rot'[p].fault => rot'[p].result = "UserInactive"
          /\ refresh_tokens' = refresh_tokens
          /\ nextToken' = nextToken
          /\ lineage' = lineage]_vars

\* Scenario D: the token is still live, its user deactivated, rotate refused
InactiveUserWitness ==
  \E p \in Procs :
    /\ Done(p) /\ rot[p].result = "UserInactive"
    /\ Live(rot[p].arg)
    /\ users[rot[p].owner].exists /\ ~users[rot[p].owner].is_active

\* ------------------------------------------------------- claims on OTP
\* the challenges of a user and channel that a request at `now` could verify,
\* the one this answer marked included
Challenges(u, ch) ==
  {r \in otp_verifications :
     /\ r.user_id = u /\ r.verification_type = ch /\ r.expires_at > now
     /\ (r.is_verified => (otpCall.status = 200 /\ otpCall.row = r.id))}

\* C3: for a user with one live challenge on a channel, after three failed
\* verify-otp requests carrying wrong codes for that user and channel, a
\* verify-otp request carrying the challenge's code before its expiry is
\* answered with the too-many-attempts result, and neither the challenge nor
\* the user is marked verified by it.
OtpLockoutAfterThreeWrong ==
  \A r \in otp_verifications :
    ( /\ otpCall.handler = "verifyOTP"
      /\ otpCall.user = r.user_id
      /\ otpCall.channel = r.verification_type
      /\ otpCall.code = r.otp_code
      /\ Challenges(r.user_id, r.verification_type) = {r}
      /\ wrongGuesses[r.id] = AttemptLimit )
    => ( /\ otpCall.reason = "TooManyAttempts"
         /\ otpCall.status # 200
         /\ ~r.is_verified )

\* ------------------------------------------------- claims on the request gate
\* C8: a request to the refresh-token endpoint whose refreshToken field is
\* not a refresh-kind token (an access token in particular) is answered 401
\* and no token is returned.
RefreshEndpointRejectsAccess ==
  ( /\ gate.handler = "refreshToken"
    /\ gate.present
    /\ gate.tok.type # "refresh" )
  => (gate.status = 401 /\ gate.minted = NoJwt)

\* the verification each middleware applies to the bearer token
GateVerify(h, tok) ==
  IF h = "authMiddleware" THEN VerifyToken(tok, now) ELSE JwtVerify(tok, now)

Middlewares == {"authMiddleware", "authMiddlewareLegacy"}

\* C9: for a validly signed, unexpired token whose kind claim is not
\* 'access' (refresh kind, or no kind claim at all), authMiddleware does not
\* call next(), does not set req.user, and answers 401 with the
\* invalid-token-type code.
GateRejectsNonAccess ==
  ( /\ gate.handler \in Middlewares
    /\ gate.present
    /\ GateVerify(gate.handler, gate.tok) = "ok"
    /\ gate.tok.type # "access" )
  => ( /\ ~gate.next
       /\ gate.user = NoIdentity
       /\ gate.status = 401
       /\ gate.reason = "InvalidTokenType" )

\* the first failing check, in the order MissingToken, TokenExpired or
\* InvalidToken, InvalidTokenType, UserNotFound, AccountDeactivated
FirstFailingCheck(h, present, tok) ==
  IF ~present THEN "MissingToken"
  ELSE IF GateVerify(h, tok) = "expired" THEN "TokenExpired"
  ELSE IF GateVerify(h, tok) # "ok" THEN "InvalidToken"
  ELSE IF tok.type # "access" THEN "InvalidTokenType"
  ELSE IF ~users[tok.sub].exists THEN "UserNotFound"
  ELSE IF ~users[tok.sub].is_active THEN "AccountDeactivated"
  ELSE "none"

\* C10: with the users table answering, authMiddleware calls next() with
\* req.user taken from the stored row iff no check fails; otherwise it answers
\* 401 without calling next(), with the code of the first failing check.
GateDecision ==
  ( /\ gate.handler \in Middlewares
    /\ gate.dbOk )
  => LET expected == FirstFailingCheck(gate.handler, gate.present, gate.tok) IN
     /\ gate.reason = expected
     /\ gate.next <=> (expected = "none")
     /\ gate.next =>
          gate.user = [userId |-> gate.tok.sub, role |-> users[gate.tok.sub].role]
     /\ ~gate.next => (gate.status = 401 /\ gate.user = NoIdentity)


\* ------------------------------------------------- claims on OTPService
\* a direct verifyOTP call is answered in this step
VerifyOtpAnswered ==
  otpCall.handler = "none" /\ otpCall'.handler = "OTPService.verifyOTP"

\* the challenges of the data model that a verifyOTP(u, code, ch) call may
\* verify at `now`: that user, code and channel, unverified, now < expires_at
Eligible(u, code, ch) ==
  {r \in otp_verifications :
     /\ r.user_id = u /\ r.otp_code = code /\ r.verification_type = ch
     /\ ~r.is_verified /\ now < r.expires_at}

\* C11 (as stated): verifyOTP succeeds iff some eligible challenge has
\* attempts < 3.
VerifySucceedsIffSomeEligible ==
  [][VerifyOtpAnswered =>
       ((otpCall'.status = 200) <=>
          (\E r \in Eligible(otpCall'.user, otpCall'.code, otpCall'.channel) :
             r.attempts < AttemptLimit))]_vars

\* C11 (amended): verifyOTP answers invalid-or-expired iff no challenge is
\* eligible (so a code of another user or channel, or a challenge at
\* now >= expires_at, never verifies); otherwise it answers for one eligible
\* challenge: success, marking that challenge, iff that challenge has
\* attempts < 3.  When the eligible challenges agree on attempts < 3 (when
\* there is only one in particular) this is the claim as stated.
VerifyAnswersForAnEligibleRow ==
  [][VerifyOtpAnswered =>
       LET E == Eligible(otpCall'.user, otpCall'.code, otpCall'.channel) IN
       /\ (otpCall'.reason = "InvalidOrExpired") <=> (E = {})
       /\ (E # {}) =>
            \E r \in E :
              /\ otpCall'.row = r.id
              /\ (otpCall'.status = 200) <=> (r.attempts < AttemptLimit)
              /\ (otpCall'.status # 200) => (otpCall'.reason = "TooManyAttempts")
       /\ (otpCall'.status = 200) =>
            \E x \in otp_verifications' : x.id = otpCall'.row /\ x.is_verified
       /\ (otpCall'.status # 200) => (otp_verifications' = otp_verifications)]_vars

\* verifyOTP answered invalid-or-expired for an unverified challenge of that
\* user, code and channel with attempts < 3, at exactly now = expires_at
VerifyExpiryBoundaryWitness ==
  /\ otpCall.handler = "OTPService.verifyOTP"
  /\ otpCall.reason = "InvalidOrExpired"
  /\ \E r \in otp_verifications :
       /\ r.user_id = otpCall.user /\ r.otp_code = otpCall.code
       /\ r.verification_type = otpCall.channel
       /\ ~r.is_verified /\ r.attempts < AttemptLimit /\ r.expires_at = now


\* C12: in a sequential run a challenge is verified at most once: a
\* successful verifyOTP call marks a challenge that was unverified and live
\* before the call, never one that is already verified (so a later call with
\* the same user, code and channel succeeds only through a different live
\* challenge with that code), and no step resets is_verified to false.
ChallengeSingleUse ==
  [][/\ \A r \in otp_verifications :
          r.is_verified =>
            /\ \A x \in otp_verifications' : (x.id = r.id) => x.is_verified
            /\ (VerifyOtpAnswered /\ otpCall'.status = 200) => (otpCall'.row # r.id)
     /\ (VerifyOtpAnswered /\ otpCall'.status = 200) =>
          \E r \in otp_verifications :
            /\ r.id = otpCall'.row /\ LiveOtp(r)
            /\ r.user_id = otpCall'.user /\ r.otp_code = otpCall'.code
            /\ r.verification_type = otpCall'.channel]_vars

\* a verifyOTP call refused for the user, code and channel of a challenge
\* that is verified and not yet expired
ReverifyRefusedWitness ==
  /\ otpCall.handler = "OTPService.verifyOTP"
  /\ otpCall.status # 200
  /\ \E r \in otp_verifications :
       /\ r.user_id = otpCall.user /\ r.otp_code = otpCall.code
       /\ r.verification_type = otpCall.channel
       /\ r.is_verified /\ r.expires_at > now


\* C13: every verify-otp request that fails for a user who has a live
\* challenge on the requested channel raises the attempts counter of that
\* live challenge by exactly 1, whatever code was submitted.
FailedVerifyCountsAgainstLive ==
  [][( /\ otpCall.handler = "none"
       /\ otpCall'.handler = "verifyOTP"
       /\ otpCall'.user # "none"
       /\ otpCall'.status # 200 )
     => \A r \in otp_verifications :
          ( /\ r.user_id = otpCall'.user
            /\ r.verification_type = otpCall'.channel
            /\ LiveOtp(r) )
          => \E x \in otp_verifications' :
               x.id = r.id /\ x.attempts = r.attempts + 1]_vars


\* ------------------------------------------ claims on the session endpoints
\* C14: when POST /auth/logout has answered 200 for a user, no refresh token
\* of that user is still valid (every one that was live is revoked).
LogoutRevokesTokens ==
  (gate.handler = "logout" /\ gate.status = 200)
  => \A r \in refresh_tokens :
       (r.user_id = gate.user.userId) => ~ValidAt(r, now)

\* the flows that end in an authenticated session
IssuingFlows == {"login", "register", "googleCallback"}

\* C15: a successful register, login, verify-otp or federated callback
\* returns one access token and one refresh token, and that refresh token is
\* a live row of the ledger owned by the authenticated user.
IssuingFlowsCreateLedgerRow ==
  /\ (gate.handler \in IssuingFlows /\ gate.status \in {200, 201}) =>
       /\ gate.minted # NoJwt
       /\ gate.refresh # 0
       /\ Live(gate.refresh)
       /\ RowOf(gate.refresh).user_id = gate.user.userId
  /\ (otpCall.handler = "verifyOTP" /\ otpCall.status = 200) =>
       \E r \in refresh_tokens : r.user_id = otpCall.user /\ ValidAt(r, now)

\* C16: when a change-password request has succeeded for a user, every
\* refresh token issued to that user before is revoked.
PasswordChangeRevokesTokens ==
  (gate.handler = "changePassword" /\ gate.status = 200)
  => \A r \in refresh_tokens :
       (r.user_id = gate.user.userId) => r.revoked


\* ------------------------------------------------ claims on revoke-all, sweep
\* a direct revokeAllUserTokens call is answered in this step
RevokeAllAnswered ==
  ~revokeRet.called /\ revokeRet'.called /\ revokeRet'.op = "revokeAllUserTokens"

\* C17: revokeAllUserTokens(u) marks every unrevoked row of u revoked,
\* returns the number of rows it flipped, and leaves the rows of every other
\* user as they were; after it no row of u is unrevoked, so a second call
\* right after it returns 0.
RevokeAllFrame ==
  [][RevokeAllAnswered =>
       LET u == revokeRet'.user IN
       /\ revokeRet'.count =
            Cardinality({r \in refresh_tokens : r.user_id = u /\ ~r.revoked})
       /\ refresh_tokens' =
            {IF r.user_id = u THEN [r EXCEPT !.revoked = TRUE] ELSE r
               : r \in refresh_tokens}
       /\ \A r \in refresh_tokens : (r.user_id # u) => (r \in refresh_tokens')
       /\ \A r \in refresh_tokens' : (r.user_id = u) => r.revoked
       /\ (\A r \in refresh_tokens : (r.user_id = u) => r.revoked)
            => (revokeRet'.count = 0)]_vars

\* revokeAllUserTokens(u) has flipped a row of u while an unrevoked row of
\* another user is in the ledger
RevokeAllFrameWitness ==
  /\ revokeRet.called /\ revokeRet.op = "revokeAllUserTokens"
  /\ revokeRet.count >= 1
  /\ \E r \in refresh_tokens : r.user_id = revokeRet.user /\ r.revoked
  /\ \E r \in refresh_tokens : r.user_id # revokeRet.user /\ ~r.revoked


\* a step that deletes ledger rows while no user row goes: a sweep
SweepStep ==
  /\ users' = users
  /\ \E r \in refresh_tokens : \A x \in refresh_tokens' : x.token # r.token

\* the sweep deletes no row that is valid at the moment of deletion
SweepDeletesOnlyDead ==
  [][SweepStep =>
       \A r \in refresh_tokens :
         (\A x \in refresh_tokens' : x.token # r.token) => ~ValidAt(r, now)]_vars

\* C18: under any interleaving with issue, rotate, revoke and revoke-all the
\* sweep deletes no row that is valid at the moment of deletion, and a rotate
\* that interleaves with a sweep does not succeed on a token the sweep was
\* entitled to delete.
SweepSafeUnderInterleaving ==
  [][/\ SweepStep =>
          \A r \in refresh_tokens :
            (\A x \in refresh_tokens' : x.token # r.token) => ~ValidAt(r, now)
     /\ \A p \in Procs :
          (rot'[p].pc = "done" /\ rot'[p].result = "ok") => ~rot'[p].swept]_vars


\* ---------------------------------------------------------- claims on login
\* what login answers for an email that belongs to no account
NoAccountAnswer == [status |-> 401, reason |-> "InvalidCredentials"]

\* C19: a login that fails for an existing account (active or deactivated)
\* with a wrong password gets the status and message of a login for an
\* email that has no account.
LoginFailuresIndistinguishable ==
  (gate.handler = "login" /\ gate.pw = "wrong")
  => (gate.status = NoAccountAnswer.status /\ gate.reason = NoAccountAnswer.reason)


\* ------------------------------------------------ claims on federated login
\* a federated callback whose database statements went through is answered
CallbackAnswered ==
  gate.handler = "none" /\ gate'.handler = "googleCallback" /\ gate'.dbOk

\* user rows in the table
UserRows == {id \in UserIds : users[id].exists}

ConcurrentRegisterUniqueAnd400 ==
  [][/\ \A a, b \in UserIds :
          ( /\ users'[a].exists /\ users'[b].exists
            /\ users'[a].email = users'[b].email ) => (a = b)
     /\ \A p \in Procs :
          ( /\ calls[p].pc # "done" /\ calls'[p].pc = "done"
            /\ calls'[p].handler = "register"
            /\ ByEmail(calls'[p].em) # {} ) => (calls'[p].status = 400)]_vars

\* C23: a successful verifyOTP sets the owning user's flag of the verified
\* channel (is_verified for email, phone_verified for sms) and leaves the
\* other flag as it was; and no step other than a successful verifyOTP for
\* that user changes a user's is_verified or phone_verified.
VerifiedFlagsOnlyByVerifyOTP ==
  [][\A u \in UserIds :
       LET verified == /\ otpCall.handler = "none"
                       /\ otpCall'.handler = "OTPService.verifyOTP"
                       /\ otpCall'.status = 200 /\ otpCall'.user = u
           ch == otpCall'.channel IN
       /\ verified =>
            /\ (ch = "email") => /\ users'[u].is_verified
                                 /\ users'[u].phone_verified = users[u].phone_verified
            /\ (ch = "sms") => /\ users'[u].phone_verified
                               /\ users'[u].is_verified = users[u].is_verified
       /\ (users[u].exists /\ ~verified) =>
            /\ users'[u].is_verified = users[u].is_verified
            /\ users'[u].phone_verified = users[u].phone_verified]_vars

\* C23, the part that holds: what a successful verifyOTP does to the flags
VerifyOTPSetsOnlyItsChannel ==
  [][\A u \in UserIds :
       ( /\ otpCall.handler = "none"
         /\ otpCall'.handler = "OTPService.verifyOTP"
         /\ otpCall'.status = 200 /\ otpCall'.user = u ) =>
         /\ (otpCall'.channel = "email") =>
               /\ users'[u].is_verified
               /\ users'[u].phone_verified = users[u].phone_verified
         /\ (otpCall'.channel = "sms") =>
               /\ users'[u].phone_verified
               /\ users'[u].is_verified = users[u].is_verified]_vars

\* a sendAndStoreOTP call has just run its insert (and its delivery step)
SendAnswered ==
  otpCall.handler = "none" /\ otpCall'.handler = "OTPService.sendAndStoreOTP"

\* C24: every challenge sendAndStoreOTP creates is stored with expires_at =
\* creation time + 180 seconds, and the expiresIn it returns is 180.
OtpTtlIs180 ==
  [][SendAnswered =>
       /\ otpCall'.ttl = 180
       /\ (otpCall'.status = 200) => (otpCall'.expiresIn = 180)]_vars

\* the row a sendAndStoreOTP call has just inserted is in the table as
\* inserted and verifyOTP's lookup finds it with attempts below the limit
StoredAndVerifiable ==
  \E r \in otp_verifications' :
    /\ r.id = otpCall'.row
    /\ r.user_id = otpCall'.user /\ r.otp_code = otpCall'.code
    /\ r.verification_type = otpCall'.channel
    /\ r.is_verified = FALSE /\ r.attempts = 0 /\ r.expires_at > now'

\* C25: in production, when the delivery step of sendAndStoreOTP fails, the
\* call fails (no success is returned), and the challenge inserted before the
\* delivery attempt is still stored, unchanged and verifiable.
ProductionDeliveryFailureIsFatal ==
  [][( /\ SendAnswered
       /\ otpCall'.env = "production"
       /\ otpCall'.fault # "none" /\ otpCall'.delivery # "skipped" ) =>
       /\ otpCall'.status # 200
       /\ otpCall'.delivery = "threw"
       /\ otpCall'.expiresIn = 0
       /\ StoredAndVerifiable]_vars

\* a call in production has thrown at its delivery step, and verifyOTP's
\* lookup finds the challenge it stored
ProductionFailureWitness ==
  /\ otpCall.handler = "OTPService.sendAndStoreOTP"
  /\ otpCall.env = "production" /\ otpCall.fault = "sendError"
  /\ otpCall.status = 500
  /\ \E r \in VerifyMatches(otpCall.user, otpCall.code, otpCall.channel) :
       r.id = otpCall.row /\ r.attempts = 0

\* C26: outside production, every delivery failure of sendAndStoreOTP
\* (unconfigured transport, send error of the email transport, failure of the
\* SMS sender) degrades to logging the code: the call returns success and the
\* challenge is stored.
DevelopmentDeliveryFailureDegrades ==
  [][( /\ SendAnswered
       /\ otpCall'.env = "development"
       /\ otpCall'.fault # "none" /\ otpCall'.delivery # "skipped" ) =>
       /\ otpCall'.status = 200
       /\ otpCall'.delivery = "logged"
       /\ StoredAndVerifiable]_vars

\* C27: for every userId u, role r and extraClaims e, verifyToken of
\* generateToken(u, r, e) within the TTL yields subject u, role r and type
\* 'access': no extraClaims changes the subject, role or kind of the token.
GenerateVerifyRoundTrip ==
  [][( gate.handler = "none" /\ gate'.handler = "generateToken" ) =>
       /\ VerifyToken(gate'.minted, now') = "ok"
       /\ gate'.minted.sub = gate'.user.userId
       /\ gate'.minted.role = gate'.user.role
       /\ gate'.minted.type = "access"]_vars

\* C28: optionalAuth calls next() and sends no error response whatever the
\* header, token or database outcome, and it sets req.user on exactly the
\* requests on which authMiddleware would succeed.
OptionalAuthAgreesWithGate ==
  (gate.handler = "optionalAuth") =>
    /\ gate.next
    /\ gate.status = 0
    /\ (gate.user # NoIdentity) <=> AuthOutcome(gate.present, gate.tok, gate.dbOk).next

\* C28, the part that holds: optionalAuth always goes on without an error
\* response, and sets req.user only where authMiddleware would succeed
OptionalAuthNeverRejects ==
  (gate.handler = "optionalAuth") =>
    /\ gate.next
    /\ gate.status = 0
    /\ (gate.user # NoIdentity) => AuthOutcome(gate.present, gate.tok, gate.dbOk).next

\* the tokens the controller's generateToken has signed: what register, login,
\* verify-otp and refresh-token return (no type, issuer or audience claim)
FlowTokens == {t \in jwts : t.sig /\ ~t.aud /\ t.type = "none"}

\* C29: every access token a successful register, login, verify-otp,
\* refresh-token or federated-callback flow has returned is accepted by
\* authMiddleware on a call made before the token's expiry while its user
\* exists and is active.
IssuedTokensPassGate ==
  ( /\ gate.handler = "authMiddleware"
    /\ gate.present /\ gate.dbOk
    /\ gate.tok \in FlowTokens
    /\ now < gate.tok.exp
    /\ users[gate.tok.sub].exists /\ users[gate.tok.sub].is_active )
  => ( gate.next /\ gate.status = 0
       /\ gate.user.userId = gate.tok.sub )

\* C30: when two verify-otp calls with the same correct code for the same
\* user and channel run concurrently, with verifyOTP's lookup and its
\* mark-verified update interleaved in any order, at most one of them returns
\* success for a challenge.
ConcurrentVerifySingleSuccess ==
  \A p, q \in Procs :
    ( /\ calls[p].handler = "OTPService.verifyOTP"
      /\ calls[q].handler = "OTPService.verifyOTP"
      /\ calls[p].pc = "done" /\ calls[q].pc = "done"
      /\ calls[p].status = 200 /\ calls[q].status = 200
      /\ calls[p].row = calls[q].row ) => (p = q)

=============================================================================
